---- MODULE Spec2Model ----
(***************************************************************************)
(* Trade reconstruction of TradeVisual (src/src/domain/reconstructor.py):  *)
(* the store of Execution / Trade / TradeExecution / TradeDay rows, the    *)
(* call reconstruct_for_account and the per-instrument FIFO walk.          *)
(*                                                                         *)
(* Arithmetic.  The code computes in binary floating point; the model      *)
(* computes exactly.  Money is counted in 1/Scale of a dollar, with Scale  *)
(* chosen so that every pro-rated commission c * (remaining / quantity)    *)
(* is a whole number of units.  Quantities are share counts.  Instants are *)
(* whole hours since Monday 00:00 UTC of some week.                        *)
(***************************************************************************)
EXTENDS Integers, Sequences, FiniteSets, TLC

\* ------------------------------------------------------------------ bounds
\* import_executions is called while fewer than MaxExes rows are stored.
MaxExes == 3
\* Quantities are 5, 10, ..., 5 * MaxQty shares.
MaxQty == 3
\* reconstruct_for_account is called at most MaxRuns times.
MaxRuns == 2
\* import_executions is called at most MaxImports times ...
MaxImports == 3
\* ... with a batch of at most MaxBatch parsed executions.
MaxBatch == 2

\* ------------------------------------------------------------------ values
RECURSIVE Factorial(_)
Factorial(n) == IF n <= 1 THEN 1 ELSE n * Factorial(n - 1)

\* Money unit: one dollar is Scale units (halves of a dollar, divisible by
\* every quantity ratio k/m with m <= MaxQty).
Scale == 2 * Factorial(MaxQty)

Dollars(n) == n * Scale

\* Execution.ts_utc of a row whose instant is missing.
NoTimestamp == 0 - 1

\* direction opened by a side, and the sign of its TradeExecution.signed_qty
OpenDirection(side) == IF side = "BUY" THEN "LONG" ELSE "SHORT"

SideSign(side) == IF side = "BUY" THEN 1 ELSE 0 - 1

Min(a, b) == IF a <= b THEN a ELSE b

\* A string (ib_execution_id) is a sequence of characters; a character is a
\* natural number, 0 the blank.
\* str.strip()
RECURSIVE StripLeft(_)
StripLeft(s) ==
    IF Len(s) > 0 /\ Head(s) = 0 THEN StripLeft(Tail(s)) ELSE s

RECURSIVE StripRight(_)
StripRight(s) ==
    IF Len(s) > 0 /\ s[Len(s)] = 0
    THEN StripRight(SubSeq(s, 1, Len(s) - 1))
    ELSE s

Strip(s) == StripRight(StripLeft(s))

\* the order of strings in ORDER BY
RECURSIVE StrLess(_, _)
StrLess(a, b) ==
    IF Len(b) = 0 THEN FALSE
    ELSE IF Len(a) = 0 THEN TRUE
    ELSE IF Head(a) # Head(b) THEN Head(a) < Head(b)
    ELSE StrLess(Tail(a), Tail(b))

\* ------------------------------------------------------------- input sets
\* The parsed executions an import may be given, per domain of the
\* exploration:
\*   "core":   one instant, three prices, two commissions;
\*   "days":   instants around a weekend, fewer quantities and prices;
\*   "import": two accounts, batches of up to MaxBatch records whose ids
\*             repeat, carry blanks or are blank;
\*   "instruments": two symbols, each with and without a conid;
\*   "missing": instants that are missing or cannot be converted;
\*   "zero":   the batch is what parse_xml makes of one <Trade> element
\*             whose quantity and tradePrice are absent, zero, negative or
\*             no number.
\* Outside "import" a batch is one record with an id not used before.
Sides == {"BUY", "SELL"}

AccountsOf(d) == IF d = "import" THEN {"A1", "A2"} ELSE {"A1"}

\* "", "1", "2", "1 " in "import"
RawIdsOf(d, rows) ==
    IF d = "import" THEN {<<0>>, <<1>>, <<2>>, <<1, 0>>}
    ELSE {<<Len(rows) + 1>>}

BatchLenOf(d) == IF d = "import" THEN MaxBatch ELSE 1

\* conid 0 stands for "no conid" (None)
ConidsOf(d) == IF d = "instruments" THEN {0, 265598} ELSE {265598}

SymbolsOf(d) == IF d = "instruments" THEN {"FB", "META"} ELSE {"AAPL"}

\* Thu 15:00Z; Fri 15:00Z; Sat 03:00Z (Fri 22:00 local); Sat 15:00Z; Sun 15:00Z
\* in "missing": no instant; 02:00Z of the first day there is (datetime.min
\* is 0001-01-01 00:00, a Monday), which no timezone west of UTC can show
InstantsOf(d) ==
    IF d = "days" THEN {111, 123, 135, 159}
    ELSE IF d = "missing" THEN {NoTimestamp, 2, 87}
    ELSE {87}

QuantitiesOf(d) ==
    IF d = "core" THEN {5 * k : k \in 1..MaxQty}
    ELSE IF d \in {"days", "instruments", "missing"}
         THEN {5 * k : k \in 1..(MaxQty - 1)}
    ELSE {5}

PricesOf(d) ==
    IF d = "core" THEN {Dollars(100), Dollars(110), Dollars(120)}
    ELSE IF d \in {"days", "instruments", "missing"}
         THEN {Dollars(100), Dollars(110)}
    ELSE {Dollars(100)}

\* -1.00 and -1.50 dollars
CommissionsOf(d) ==
    IF d = "core" THEN {0 - Scale, 0 - ((3 * Scale) \div 2)}
    ELSE {0 - ((3 * Scale) \div 2)}

\* ParsedExecution records and the batches of them
ParsedOf(d, rows) ==
    [ib_execution_id : RawIdsOf(d, rows), conid : ConidsOf(d),
     symbol : SymbolsOf(d), ts_utc : InstantsOf(d), side : Sides,
     quantity : QuantitiesOf(d), price : PricesOf(d),
     commission : CommissionsOf(d)]

\* ------------------------------------------------------------- parse_xml
\* An attribute of a <Trade> element: absent, a number, or other text.
Absent == [kind |-> "absent", value |-> 0]

Number(n) == [kind |-> "number", value |-> n]

Text == [kind |-> "text", value |-> 0]

\* the <Trade> elements of the "zero" domain
ElementsOf(d, rows) ==
    [ibExecID : RawIdsOf(d, rows), conid : ConidsOf(d),
     symbol : SymbolsOf(d), dateTime : InstantsOf(d), buySell : Sides,
     quantity : {Absent, Text, Number(0), Number(5), Number(0 - 10)},
     tradePrice : {Absent, Number(0 - Dollars(100)), Number(Dollars(100))},
     ibCommission : {Number(c) : c \in CommissionsOf(d)}]

\* float(trade_elem.get(name, 0)) of an attribute that holds a number
Float(attr) == IF attr.kind = "absent" THEN 0 ELSE attr.value

AbsValue(n) == IF n < 0 THEN 0 - n ELSE n

\* fault variant of ParseRejects: a quantity or a price that is not
\* positive is rejected as well
ParseRejectsNonPositive(elem) ==
    \/ Len(Strip(elem.ibExecID)) = 0
    \/ elem.quantity.kind = "text"
    \/ elem.tradePrice.kind = "text"
    \/ elem.ibCommission.kind = "text"
    \/ AbsValue(Float(elem.quantity)) = 0
    \/ Float(elem.tradePrice) <= 0

\* the element is left out: "if not ... ib_execution_id: continue", or
\* float() raises ValueError, which is caught with "continue"
ParseRejects(elem) ==
    \/ Len(Strip(elem.ibExecID)) = 0
    \/ elem.quantity.kind = "text"
    \/ elem.tradePrice.kind = "text"
    \/ elem.ibCommission.kind = "text"

\* ParsedExecution(...) of an element that is not left out
ParsedExecution(elem) ==
    [ib_execution_id |-> Strip(elem.ibExecID), conid |-> elem.conid,
     symbol |-> elem.symbol, ts_utc |-> elem.dateTime, side |-> elem.buySell,
     quantity |-> AbsValue(Float(elem.quantity)),
     price |-> Float(elem.tradePrice),
     commission |-> Float(elem.ibCommission)]

\* IBKRFlexParser.parse_xml: "for trade_elem in root.findall(.//Trade)"
RECURSIVE parse_xml(_)
parse_xml(elems) ==
    IF Len(elems) = 0 THEN <<>>
    ELSE IF ParseRejects(Head(elems)) THEN parse_xml(Tail(elems))
    ELSE <<ParsedExecution(Head(elems))>> \o parse_xml(Tail(elems))

BatchesOf(d, rows) ==
    IF d = "zero"
    THEN {parse_xml(elems) :
            elems \in UNION {[1..n -> ElementsOf(d, rows)] :
                                n \in 1..BatchLenOf(d)}}
    ELSE UNION {[1..n -> ParsedOf(d, rows)] : n \in 1..BatchLenOf(d)}

VARIABLES
    dom,                \* domain of the exploration (never changes)
    executions,         \* table execution: sequence of rows, insertion order
    trades,             \* table trade, as the session sees it
    trade_executions,   \* table trade_execution, as the session sees it
    trade_days,         \* table trade_day, as the session sees it
    committed,          \* the three tables as last committed
    next_id,            \* source of fresh Trade ids (uuid4)
    pc,                 \* "idle" | "walk" | "commit"
    groups,             \* by_instrument: sequence of [conid, symbol, exes]
    gi,                 \* index of the instrument being reconstructed
    pos,                \* index of the next execution of that instrument
    open_lots,          \* FIFO queue of open lots
    current_trade,      \* <<>> (None) or <<id>> of the Trade being built
    daily_pnl,          \* entries [trade_id, day, gross, commissions, shares_closed]
    trades_created,     \* per-instrument count
    trade_days_created, \* per-instrument count
    total_trades,       \* reconstruct_for_account: trades_created
    total_days,         \* reconstruct_for_account: trade_days_created
    result,             \* what the last call returned
    runs,               \* number of calls started
    imported,           \* the last call of import_executions and its return
    account_id,         \* argument of the call in progress
    before              \* committed tables and result at the entry of the call

vars == <<dom, executions, trades, trade_executions, trade_days, committed,
          next_id, pc, groups, gi, pos, open_lots, current_trade, daily_pnl,
          trades_created, trade_days_created, total_trades, total_days,
          result, runs, imported, account_id, before>>

\* ------------------------------------------------------------- day bucket
\* report_timezone = "US/Eastern": local civil time is UTC - 5 h (standard time)
TzOffsetHours == 5

\* exe.ts_utc.astimezone(tz).date(): the local day number (day 0 is the Monday
\* the instants are counted from)
LocalDate(ts_utc) == (ts_utc - TzOffsetHours) \div 24

\* ------------------------------------------------------------------- lots
OpenLot(qty, price, exe_id) == [qty |-> qty, price |-> price, exe_id |-> exe_id]

RECURSIVE SumLots(_)
SumLots(lots) ==
    IF Len(lots) = 0 THEN 0 ELSE Head(lots).qty + SumLots(Tail(lots))

\* fault variant of CloseQty: the quantity is not clamped to the open lots
CloseQtyUnclamped(quantity, lots) == quantity

\* close_qty = min(exe.quantity, sum(lot.qty for lot in open_lots))
CloseQty(quantity, lots) == Min(quantity, SumLots(lots))

\* fault variant of Matched: the slice is not clamped to the front lot
MatchedUnclamped(lot_qty, to_close) == to_close

\* matched = min(lot.qty, to_close)
Matched(lot_qty, to_close) == Min(lot_qty, to_close)

\* fault variant of SlicePnl: the LONG formula is used for both directions
SlicePnlLongOnly(direction, lot_price, exe_price, matched) ==
    (exe_price - lot_price) * matched

\* realized P&L of one matched slice
SlicePnl(direction, lot_price, exe_price, matched) ==
    IF direction = "LONG"
    THEN (exe_price - lot_price) * matched
    ELSE (lot_price - exe_price) * matched

\* exe.commission * (remaining / exe.quantity), exactly
ProRate(commission, remaining, quantity) ==
    (commission * remaining) \div quantity

\* -------------------------------------------------------------- daily_pnl
\* daily_pnl[(trade_id, day)][...] += ...: a defaultdict, kept in insertion
\* order; a missing key is created with zeros first.

\* fault variant of HasDay: every access makes a new entry
HasDayNever(daily, trade_id, day) == FALSE

HasDay(daily, trade_id, day) ==
    \E i \in 1..Len(daily) : daily[i].trade_id = trade_id /\ daily[i].day = day

\* fault variant of DailyAdd: "=" where the code has "+="
DailyAddOverwrite(daily, trade_id, day, gross, commissions, shares) ==
    IF HasDay(daily, trade_id, day)
    THEN [i \in 1..Len(daily) |->
            IF daily[i].trade_id = trade_id /\ daily[i].day = day
            THEN [daily[i] EXCEPT !.gross = gross,
                                  !.commissions = commissions,
                                  !.shares_closed = shares]
            ELSE daily[i]]
    ELSE Append(daily, [trade_id |-> trade_id, day |-> day, gross |-> gross,
                        commissions |-> commissions, shares_closed |-> shares])

DailyAdd(daily, trade_id, day, gross, commissions, shares) ==
    IF HasDay(daily, trade_id, day)
    THEN [i \in 1..Len(daily) |->
            IF daily[i].trade_id = trade_id /\ daily[i].day = day
            THEN [daily[i] EXCEPT !.gross = @ + gross,
                                  !.commissions = @ + commissions,
                                  !.shares_closed = @ + shares]
            ELSE daily[i]]
    ELSE Append(daily, [trade_id |-> trade_id, day |-> day, gross |-> gross,
                        commissions |-> commissions, shares_closed |-> shares])

\* ----------------------------------------------------------------- trades
NewTrade(id, ctx, direction, ts_utc, quantity, commission) ==
    [id |-> id, account_id |-> ctx.account_id, symbol |-> ctx.symbol,
     conid |-> ctx.conid, direction |-> direction, opened_at_utc |-> ts_utc,
     closed_at_utc |-> NoTimestamp, status |-> "open",
     quantity_opened |-> quantity, quantity_closed |-> 0,
     gross_pnl_total |-> 0, commission_total |-> commission,
     net_pnl_total |-> 0]

TradeById(ts, id) == ts[CHOOSE i \in 1..Len(ts) : ts[i].id = id]

SetTrade(ts, t) == [i \in 1..Len(ts) |-> IF ts[i].id = t.id THEN t ELSE ts[i]]

\* fault variant of TradeExecution: every link is given the role open
TradeExecutionRoleOpen(trade_id, execution_id, signed_qty, role) ==
    [trade_id |-> trade_id, execution_id |-> execution_id,
     signed_qty |-> signed_qty, role |-> "open"]

TradeExecution(trade_id, execution_id, signed_qty, role) ==
    [trade_id |-> trade_id, execution_id |-> execution_id,
     signed_qty |-> signed_qty, role |-> role]

\* day_status of a TradeDay row
DayStatus(trade_status, shares_closed) ==
    IF trade_status = "closed" /\ shares_closed > 0 THEN "closed" ELSE "opened"

\* TradeDay(...): the constructor is given commissions_sum, which is no field
\* of TradeDay, so the column commissions keeps its default 0.0
TradeDay(trade, entry) ==
    [trade_id |-> trade.id, day_date_local |-> entry.day,
     day_status |-> DayStatus(trade.status, entry.shares_closed),
     realized_gross |-> entry.gross,
     commissions |-> 0,
     realized_net |-> entry.gross + entry.commissions,
     shares_closed |-> entry.shares_closed]

\* _finalize_trade_days: the rows added for trade, in daily_pnl's order
RECURSIVE FinalizeTradeDays(_, _)
FinalizeTradeDays(trade, daily) ==
    IF Len(daily) = 0 THEN <<>>
    ELSE IF Head(daily).trade_id # trade.id
         THEN FinalizeTradeDays(trade, Tail(daily))
         ELSE <<TradeDay(trade, Head(daily))>>
              \o FinalizeTradeDays(trade, Tail(daily))

\* ------------------------------------------------- the per-instrument walk
\* The walk's state w: [open_lots, current_trade, daily_pnl, trades_created,
\* trade_days_created, trades, trade_executions, trade_days, next_id].
\* ctx: [account_id, conid, symbol] of the instrument.

\* fault variant of BeginInstrument: the lot queue and the current trade are
\* carried over from the instrument before
BeginInstrumentKeepPosition(w) ==
    [w EXCEPT !.daily_pnl = <<>>,
              !.trades_created = 0, !.trade_days_created = 0]

\* open_lots = deque(); current_trade = None; counts 0; daily_pnl empty
BeginInstrument(w) ==
    [w EXCEPT !.open_lots = <<>>, !.current_trade = <<>>, !.daily_pnl = <<>>,
              !.trades_created = 0, !.trade_days_created = 0]

\* fault variant of ConsumeLot: an exhausted lot stays in the queue
ConsumeLotNoPop(lots, matched) ==
    <<[Head(lots) EXCEPT !.qty = @ - matched]>> \o Tail(lots)

\* fault variant of ConsumeLot: the youngest lot is consumed
ConsumeLotLast(lots, matched) ==
    IF lots[Len(lots)].qty - matched = 0
    THEN SubSeq(lots, 1, Len(lots) - 1)
    ELSE [lots EXCEPT ![Len(lots)].qty = @ - matched]

\* lot.qty -= matched; if lot.qty == 0: open_lots.popleft()
ConsumeLot(lots, matched) ==
    IF Head(lots).qty - matched = 0
    THEN Tail(lots)
    ELSE <<[Head(lots) EXCEPT !.qty = @ - matched]>> \o Tail(lots)

\* while to_close > 0 and open_lots: match the front lot
RECURSIVE MatchFifo(_, _, _, _, _, _)
MatchFifo(lots, to_close, trade, daily, exe_price, day_key) ==
    IF to_close > 0 /\ Len(lots) > 0
    THEN LET lot == Head(lots)
             matched == Matched(lot.qty, to_close)
             pnl == SlicePnl(trade.direction, lot.price, exe_price, matched)
             daily2 == DailyAdd(daily, trade.id, day_key, pnl, 0, matched)
             trade2 == [trade EXCEPT !.quantity_closed = @ + matched,
                                     !.gross_pnl_total = @ + pnl]
             lots2 == ConsumeLot(lots, matched)
         IN  MatchFifo(lots2, to_close - matched, trade2, daily2,
                       exe_price, day_key)
    ELSE [lots |-> lots, trade |-> trade, daily |-> daily]

\* current_trade = Trade(...); session.add; session.flush; trades_created += 1;
\* open_lots.append(OpenLot(...)); TradeExecution(role="open");
\* daily_pnl[...]["commissions"] += commission
\* (a position opened from flat: quantity and commission of the execution; the
\* rest of a flip: remaining and the pro-rated commission)
StartTrade(w, ctx, exe, day_key, quantity, commission) ==
    LET id == w.next_id
        t == NewTrade(id, ctx, OpenDirection(exe.side), exe.ts_utc,
                      quantity, commission)
    IN  [w EXCEPT
           !.next_id = @ + 1,
           !.current_trade = <<id>>,
           !.trades = Append(@, t),
           !.trades_created = @ + 1,
           !.open_lots = Append(@, OpenLot(quantity, exe.price, exe.id)),
           !.trade_executions =
               Append(@, TradeExecution(id, exe.id,
                                        SideSign(exe.side) * quantity, "open")),
           !.daily_pnl = DailyAdd(@, id, day_key, 0, commission, 0)]

\* adding to the existing position
AddToTrade(w, exe, day_key) ==
    LET t == TradeById(w.trades, w.current_trade[1])
        t2 == [t EXCEPT !.quantity_opened = @ + exe.quantity,
                        !.commission_total = @ + exe.commission]
    IN  [w EXCEPT
           !.trades = SetTrade(@, t2),
           !.open_lots = Append(@, OpenLot(exe.quantity, exe.price, exe.id)),
           !.trade_executions =
               Append(@, TradeExecution(t.id, exe.id,
                                        SideSign(exe.side) * exe.quantity,
                                        "open")),
           !.daily_pnl = DailyAdd(@, t.id, day_key, 0, exe.commission, 0)]

\* commission the closing trade is charged for the execution
CloseCommission(commission, close_qty, quantity) == commission

\* signed_qty of the link of a closing execution
CloseLinkQty(side, quantity, close_qty) ==
    IF close_qty > 0 THEN SideSign(side) * quantity ELSE 0

\* fault variant of NetPnl: the commissions are left out
NetPnlGrossOnly(gross_pnl_total, commission_total) == gross_pnl_total

\* current_trade.gross_pnl_total + current_trade.commission_total
NetPnl(gross_pnl_total, commission_total) == gross_pnl_total + commission_total

\* fault variant of NetAfterClose: the net is brought up to date by every
\* closing execution
NetAfterCloseAlways(t, lots) == NetPnl(t.gross_pnl_total, t.commission_total)

\* "if not open_lots: ... current_trade.net_pnl_total = ...": net_pnl_total
\* of the trade after a closing execution that left the queue lots
NetAfterClose(t, lots) ==
    IF Len(lots) = 0
    THEN NetPnl(t.gross_pnl_total, t.commission_total)
    ELSE t.net_pnl_total

\* an execution against the open position: FIFO match, commission, link,
\* close of the trade when the queue empties (its TradeDay rows are created
\* and daily_pnl is cleared)
CloseTrade(w, exe, day_key) ==
    LET t == TradeById(w.trades, w.current_trade[1])
        close_qty == CloseQty(exe.quantity, w.open_lots)
        m == MatchFifo(w.open_lots, close_qty, t, w.daily_pnl,
                       exe.price, day_key)
        charged == CloseCommission(exe.commission, close_qty, exe.quantity)
        daily2 == DailyAdd(m.daily, t.id, day_key, 0, charged, 0)
        t1 == [m.trade EXCEPT !.commission_total = @ + charged]
        t2 == [t1 EXCEPT !.net_pnl_total = NetAfterClose(t1, m.lots)]
        link == TradeExecution(t.id, exe.id,
                               CloseLinkQty(exe.side, exe.quantity, close_qty),
                               IF close_qty > 0 THEN "close" ELSE "open")
        links2 == Append(w.trade_executions, link)
    IN  IF Len(m.lots) = 0
        THEN LET t3 == [t2 EXCEPT
                          !.closed_at_utc = exe.ts_utc,
                          !.status = "closed"]
                 days == FinalizeTradeDays(t3, daily2)
             IN  [w EXCEPT
                    !.open_lots = m.lots,
                    !.trades = SetTrade(@, t3),
                    !.trade_executions = links2,
                    !.trade_days = @ \o days,
                    !.trade_days_created = @ + Len(days),
                    !.daily_pnl = <<>>,
                    !.current_trade = <<>>]
        ELSE [w EXCEPT
                !.open_lots = m.lots,
                !.trades = SetTrade(@, t2),
                !.trade_executions = links2,
                !.daily_pnl = daily2]

\* exe.ts_utc.astimezone(tz) raises (OverflowError) when the local time
\* would lie before datetime.min, instant 0
Convertible(ts_utc) == ts_utc - TzOffsetHours >= 0

\* fault variant of Skipped: no execution is skipped
SkippedNever(exe) == FALSE

\* "if not exe.ts_utc: continue" and "except Exception: continue"
Skipped(exe) == exe.ts_utc = NoTimestamp \/ ~Convertible(exe.ts_utc)

\* one iteration of "for exe in executions"
ProcessExecution(w, ctx, exe) ==
    IF Skipped(exe)
    THEN w
    ELSE
      LET day_key == LocalDate(exe.ts_utc) IN
      IF w.current_trade = <<>>
      THEN StartTrade(w, ctx, exe, day_key, exe.quantity, exe.commission)
      ELSE IF TradeById(w.trades, w.current_trade[1]).direction
                = OpenDirection(exe.side)
      THEN AddToTrade(w, exe, day_key)
      ELSE
        LET remaining == exe.quantity - CloseQty(exe.quantity, w.open_lots)
            w2 == CloseTrade(w, exe, day_key)
        IN  IF remaining > 0
            THEN StartTrade(w2, ctx, exe, day_key, remaining,
                            ProRate(exe.commission, remaining, exe.quantity))
            ELSE w2

\* fault variant of FinishInstrument: the rows of the open trade are added
\* without being counted
FinishInstrumentUncounted(w) ==
    IF w.current_trade # <<>> /\ Len(w.daily_pnl) > 0
    THEN [w EXCEPT !.trade_days = @ \o FinalizeTradeDays(
                        TradeById(w.trades, w.current_trade[1]), w.daily_pnl)]
    ELSE w

\* after the loop: "if current_trade and daily_pnl: _finalize_trade_days(...)"
FinishInstrument(w) ==
    IF w.current_trade # <<>> /\ Len(w.daily_pnl) > 0
    THEN LET days == FinalizeTradeDays(
                        TradeById(w.trades, w.current_trade[1]), w.daily_pnl)
         IN  [w EXCEPT !.trade_days = @ \o days,
                       !.trade_days_created = @ + Len(days)]
    ELSE w

\* ------------------------------------------------------------------ store
Tables(t, l, d) == [trades |-> t, trade_executions |-> l, trade_days |-> d]

\* ids of the Trade rows of an account
TradeIdsOf(tables, acct) ==
    {tables.trades[i].id : i \in {j \in 1..Len(tables.trades) :
                                      tables.trades[j].account_id = acct}}

\* fault variant of DeleteTrades: the delete does not cascade to the children
DeleteTradesNoCascade(tables, acct) ==
    LET KeepTrade(t) == t.account_id # acct
    IN  Tables(SelectSeq(tables.trades, KeepTrade),
               tables.trade_executions, tables.trade_days)

\* fault variant of DeleteTrades: the rows of every account are deleted
DeleteTradesEveryAccount(tables, acct) == Tables(<<>>, <<>>, <<>>)

\* "for trade in existing_trades: session.delete(trade)": the Trade rows of
\* the account go, and with them (cascade_delete) their TradeExecution and
\* TradeDay rows
DeleteTrades(tables, acct) ==
    LET gone == TradeIdsOf(tables, acct)
        KeepTrade(t) == t.account_id # acct
        KeepChild(r) == r.trade_id \notin gone
    IN  Tables(SelectSeq(tables.trades, KeepTrade),
               SelectSeq(tables.trade_executions, KeepChild),
               SelectSeq(tables.trade_days, KeepChild))

\* ORDER BY ts_utc, ib_execution_id
Precedes(a, b) ==
    \/ a.ts_utc < b.ts_utc
    \/ a.ts_utc = b.ts_utc /\ StrLess(a.ib_execution_id, b.ib_execution_id)

RECURSIVE InsertOrdered(_, _)
InsertOrdered(e, s) ==
    IF Len(s) = 0 THEN <<e>>
    ELSE IF Precedes(e, Head(s)) THEN <<e>> \o s
    ELSE <<Head(s)>> \o InsertOrdered(e, Tail(s))

RECURSIVE OrderExecutions(_)
OrderExecutions(rows) ==
    IF Len(rows) = 0 THEN <<>>
    ELSE InsertOrdered(Head(rows), OrderExecutions(Tail(rows)))

\* select(Execution).where(account_id == ...).order_by(ts_utc, ib_execution_id)
LoadExecutions(rows, acct) ==
    LET Mine(e) == e.account_id = acct
    IN  OrderExecutions(SelectSeq(rows, Mine))

\* key = (exe.conid, exe.symbol) if exe.conid else (None, exe.symbol);
\* conid 0 stands for "no conid"
InstrumentKey(exe) ==
    IF exe.conid # 0 THEN <<exe.conid, exe.symbol>> ELSE <<0, exe.symbol>>

\* by_instrument[key].append(exe): groups in order of first appearance
RECURSIVE GroupByInstrument(_, _)
GroupByInstrument(exes, acc) ==
    IF Len(exes) = 0 THEN acc
    ELSE LET e == Head(exes)
             k == InstrumentKey(e)
             hit == {i \in 1..Len(acc) : acc[i].key = k}
         IN  GroupByInstrument(
                 Tail(exes),
                 IF hit = {}
                 THEN Append(acc, [key |-> k, conid |-> k[1], symbol |-> k[2],
                                   exes |-> <<e>>])
                 ELSE [i \in 1..Len(acc) |->
                         IF i \in hit
                         THEN [acc[i] EXCEPT !.exes = Append(@, e)]
                         ELSE acc[i]])

NoResult == [status |-> "none", trades |-> 0, days |-> 0]

Running == [status |-> "running", trades |-> 0, days |-> 0]

Failed == [status |-> "error", trades |-> 0, days |-> 0]

Returned(t, d) == [status |-> "ok", trades |-> t, days |-> d]

\* the walk's state, read from and written to the variables
Walker ==
    [open_lots |-> open_lots, current_trade |-> current_trade,
     daily_pnl |-> daily_pnl, trades_created |-> trades_created,
     trade_days_created |-> trade_days_created, trades |-> trades,
     trade_executions |-> trade_executions, trade_days |-> trade_days,
     next_id |-> next_id]

SetWalker(w) ==
    /\ open_lots' = w.open_lots
    /\ current_trade' = w.current_trade
    /\ daily_pnl' = w.daily_pnl
    /\ trades_created' = w.trades_created
    /\ trade_days_created' = w.trade_days_created
    /\ trades' = w.trades
    /\ trade_executions' = w.trade_executions
    /\ trade_days' = w.trade_days
    /\ next_id' = w.next_id

Context(acct, g) == [account_id |-> acct, conid |-> g.conid, symbol |-> g.symbol]

\* the locals of a call that has returned
ClearLocals ==
    /\ groups' = <<>>
    /\ gi' = 0
    /\ pos' = 0
    /\ open_lots' = <<>>
    /\ current_trade' = <<>>
    /\ daily_pnl' = <<>>
    /\ trades_created' = 0
    /\ trade_days_created' = 0
    /\ total_trades' = 0
    /\ total_days' = 0

\* ----------------------------------------------------------------- import
\* select(Execution.ib_execution_id).where(account_id == account.id)
ExistingIds(rows, acct) ==
    {rows[i].ib_execution_id :
        i \in {j \in 1..Len(rows) : rows[j].account_id = acct}}

\* fault variant of InDb: the rows of the store are not consulted
InDbNever(exec_id, existing_ids) == FALSE

\* "if exec_id in existing_ids"
InDb(exec_id, existing_ids) == exec_id \in existing_ids

\* Execution(account_id=account.id, ib_execution_id=exec_id, ...); the
\* primary key is a fresh uuid
Execution(id, acct, exec_id, parsed) ==
    [id |-> id, account_id |-> acct, ib_execution_id |-> exec_id,
     conid |-> parsed.conid, symbol |-> parsed.symbol,
     ts_utc |-> parsed.ts_utc, side |-> parsed.side,
     quantity |-> parsed.quantity, price |-> parsed.price,
     commission |-> parsed.commission]

Warning(kind, parsed, exec_id) ==
    [kind |-> kind, symbol |-> parsed.symbol, ib_execution_id |-> exec_id]

\* "for parsed in parsed_executions"; st is [rows, existing_ids,
\* seen_in_file, newly_inserted, warnings]
RECURSIVE ImportLoop(_, _, _)
ImportLoop(parsed_executions, acct, st) ==
    IF Len(parsed_executions) = 0 THEN st
    ELSE
      LET parsed == Head(parsed_executions)
          exec_id == Strip(parsed.ib_execution_id)
          rest == Tail(parsed_executions)
      IN
      IF Len(exec_id) = 0
      THEN ImportLoop(rest, acct,
               [st EXCEPT !.warnings =
                   Append(@, Warning("missing ib_execution_id", parsed,
                                     exec_id))])
      ELSE IF exec_id \in st.seen_in_file
      THEN ImportLoop(rest, acct,
               [st EXCEPT !.warnings =
                   Append(@, Warning("duplicate in file", parsed, exec_id))])
      ELSE IF InDb(exec_id, st.existing_ids)
      THEN ImportLoop(rest, acct,
               [st EXCEPT !.seen_in_file = @ \cup {exec_id},
                          !.warnings =
                   Append(@, Warning("duplicate in DB", parsed, exec_id))])
      ELSE ImportLoop(rest, acct,
               [st EXCEPT !.seen_in_file = @ \cup {exec_id},
                          !.existing_ids = @ \cup {exec_id},
                          !.newly_inserted = @ + 1,
                          !.rows = Append(@, Execution(Len(@) + 1, acct,
                                                       exec_id, parsed))])

import_executions(rows, acct, parsed_executions) ==
    ImportLoop(parsed_executions, acct,
               [rows |-> rows, existing_ids |-> ExistingIds(rows, acct),
                seen_in_file |-> {}, newly_inserted |-> 0, warnings |-> <<>>])

\* no call of import_executions yet
NoImport ==
    [calls |-> 0, account_id |-> "A1", parsed_executions |-> <<>>,
     total |-> 0, newly_inserted |-> 0, warnings |-> <<>>]

\* ---------------------------------------------------------------- actions
Start(d) ==
    /\ dom = d
    /\ executions = <<>>
    /\ trades = <<>>
    /\ trade_executions = <<>>
    /\ trade_days = <<>>
    /\ committed = Tables(<<>>, <<>>, <<>>)
    /\ next_id = 1
    /\ pc = "idle"
    /\ groups = <<>>
    /\ gi = 0
    /\ pos = 0
    /\ open_lots = <<>>
    /\ current_trade = <<>>
    /\ daily_pnl = <<>>
    /\ trades_created = 0
    /\ trade_days_created = 0
    /\ total_trades = 0
    /\ total_days = 0
    /\ result = NoResult
    /\ runs = 0
    /\ imported = NoImport
    /\ account_id = "A1"
    /\ before = [tables |-> Tables(<<>>, <<>>, <<>>), result |-> NoResult]

\* an empty store; the imports draw from the "core" domain
Init == Start("core")

\* an empty store; the imports draw from the "days" domain
InitDays == Start("days")

\* an empty store; the imports draw from the "import" domain
InitImport == Start("import")

\* an empty store; the imports draw from the "instruments" domain
InitInstruments == Start("instruments")

\* an empty store; the imports draw from the "missing" domain
InitMissing == Start("missing")

\* an empty store; the imports draw from the "zero" domain
InitZero == Start("zero")

\* IBKRImporter.import_executions(session, account, parsed_executions): the
\* new rows are added and committed, and (total, new, warnings) is returned
ImportExecution ==
    /\ pc = "idle"
    /\ runs = 0
    /\ Len(executions) < MaxExes
    /\ imported.calls < MaxImports
    /\ \E acct \in AccountsOf(dom), parsed_executions \in BatchesOf(dom, executions) :
         LET r == import_executions(executions, acct, parsed_executions)
         IN  /\ executions' = r.rows
             /\ imported' = [calls |-> imported.calls + 1,
                             account_id |-> acct,
                             parsed_executions |-> parsed_executions,
                             total |-> Len(parsed_executions),
                             newly_inserted |-> r.newly_inserted,
                             warnings |-> r.warnings]
    /\ UNCHANGED <<dom, trades, trade_executions, trade_days, committed,
                   next_id, pc, groups, gi, pos, open_lots, current_trade,
                   daily_pnl, trades_created, trade_days_created,
                   total_trades, total_days, result, runs, account_id, before>>

\* reconstruct_for_account, up to the loop over the instruments: the old
\* rows are deleted and the deletion is committed, the executions are loaded
\* and grouped
ReconstructBegin ==
    /\ pc = "idle"
    /\ runs < MaxRuns
    /\ \E acct \in AccountsOf(dom) :
         LET kept == DeleteTrades(Tables(trades, trade_executions, trade_days),
                                  acct)
             exes == LoadExecutions(executions, acct)
         IN  /\ account_id' = acct
             /\ runs' = runs + 1
             /\ before' = [tables |-> committed, result |-> result]
             /\ trades' = kept.trades
             /\ trade_executions' = kept.trade_executions
             /\ trade_days' = kept.trade_days
             /\ committed' = kept
             /\ open_lots' = <<>>
             /\ current_trade' = <<>>
             /\ daily_pnl' = <<>>
             /\ trades_created' = 0
             /\ trade_days_created' = 0
             /\ total_trades' = 0
             /\ total_days' = 0
             /\ IF Len(exes) = 0
                THEN /\ result' = Returned(0, 0)
                     /\ pc' = "idle"
                     /\ groups' = <<>>
                     /\ gi' = 0
                     /\ pos' = 0
                ELSE /\ result' = Running
                     /\ pc' = "walk"
                     /\ groups' = GroupByInstrument(exes, <<>>)
                     /\ gi' = 1
                     /\ pos' = 1
    /\ UNCHANGED <<dom, executions, next_id, imported>>

\* one execution of the current instrument is processed
StepExecution ==
    /\ pc = "walk"
    /\ pos <= Len(groups[gi].exes)
    /\ SetWalker(ProcessExecution(Walker, Context(account_id, groups[gi]),
                                  groups[gi].exes[pos]))
    /\ pos' = pos + 1
    /\ UNCHANGED <<dom, executions, committed, pc, groups, gi, total_trades,
                   total_days, result, runs, imported, account_id, before>>

\* the instrument's loop has ended: its open trade gets its TradeDay rows,
\* the counts are added, and the next instrument starts
EndInstrument ==
    /\ pc = "walk"
    /\ pos > Len(groups[gi].exes)
    /\ LET w == FinishInstrument(Walker)
       IN  /\ total_trades' = total_trades + w.trades_created
           /\ total_days' = total_days + w.trade_days_created
           /\ SetWalker(BeginInstrument(w))
    /\ IF gi < Len(groups)
       THEN gi' = gi + 1 /\ pos' = 1 /\ pc' = pc
       ELSE gi' = gi /\ pos' = pos /\ pc' = "commit"
    /\ UNCHANGED <<dom, executions, committed, groups, result, runs,
                   imported, account_id, before>>

\* session.commit(); return trades_created, trade_days_created
Commit ==
    /\ pc = "commit"
    /\ committed' = Tables(trades, trade_executions, trade_days)
    /\ result' = Returned(total_trades, total_days)
    /\ pc' = "idle"
    /\ ClearLocals
    /\ UNCHANGED <<dom, executions, trades, trade_executions, trade_days,
                   next_id, runs, imported, account_id, before>>

\* the storage collaborator raises during the rebuild (a flush or the commit
\* fails): nothing catches it, the call ends and the session's uncommitted
\* work is rolled back
Fail ==
    /\ pc \in {"walk", "commit"}
    /\ trades' = committed.trades
    /\ trade_executions' = committed.trade_executions
    /\ trade_days' = committed.trade_days
    /\ result' = Failed
    /\ pc' = "idle"
    /\ ClearLocals
    /\ UNCHANGED <<dom, executions, committed, next_id, runs, imported,
                   account_id, before>>

Next ==
    \/ ImportExecution
    \/ ReconstructBegin
    \/ StepExecution
    \/ EndInstrument
    \/ Commit
    \/ Fail

Spec == Init /\ [][Next]_vars

SpecDays == InitDays /\ [][Next]_vars

SpecImport == InitImport /\ [][Next]_vars

SpecInstruments == InitInstruments /\ [][Next]_vars

SpecMissing == InitMissing /\ [][Next]_vars

SpecZero == InitZero /\ [][Next]_vars

\* ================================================================= claims
\* Shorthands used by the claims.

\* the call has returned its counts and nothing is in progress
ReturnedOk == pc = "idle" /\ result.status = "ok"

\* the executions the call walked, in the order it walked them
Walked == LoadExecutions(executions, account_id)

\* the absolute open position of the walk
OpenPosition ==
    IF current_trade = <<>> THEN 0
    ELSE LET t == TradeById(trades, current_trade[1])
         IN  t.quantity_opened - t.quantity_closed

RECURSIVE SumField(_, _)
SumField(rows, f) ==
    IF Len(rows) = 0 THEN 0 ELSE Head(rows)[f] + SumField(Tail(rows), f)

DaysOf(tables, id) ==
    LET Mine(r) == r.trade_id = id IN SelectSeq(tables.trade_days, Mine)

LinksOf(tables, id) ==
    LET Mine(r) == r.trade_id = id IN SelectSeq(tables.trade_executions, Mine)

\* --------------------------------------------------------------------- C1
PartialCloseCase ==
    /\ ReturnedOk
    /\ Len(Walked) = 3
    /\ \A i \in 1..3 : ~Skipped(Walked[i])
    /\ \A i \in 1..3 : InstrumentKey(Walked[i]) = InstrumentKey(Walked[1])
    /\ Walked[1].side = "BUY" /\ Walked[2].side = "BUY"
    /\ Walked[3].side = "SELL"
    /\ Walked[1].quantity < Walked[3].quantity
    /\ Walked[3].quantity < Walked[1].quantity + Walked[2].quantity
    /\ LocalDate(Walked[1].ts_utc) = LocalDate(Walked[2].ts_utc)
    /\ LocalDate(Walked[2].ts_utc) = LocalDate(Walked[3].ts_utc)

PartialCloseGross ==
    Walked[1].quantity * (Walked[3].price - Walked[1].price)
    + (Walked[3].quantity - Walked[1].quantity)
      * (Walked[3].price - Walked[2].price)

PartialCloseCommission ==
    Walked[1].commission + Walked[2].commission + Walked[3].commission

\* C1: BUY a@p1, BUY b@p2, SELL c@p3 with a < c < a+b on one local day, from
\* flat: the call returns (1, 1) and leaves one Trade, LONG, open, with
\* quantity_opened = a+b, quantity_closed = c, gross_pnl_total =
\* a*(p3-p1) + (c-a)*(p3-p2), commission_total = the three commissions, and
\* one TradeDay with shares_closed = c, realized_gross = that gross and
\* realized_net = that gross plus the commission total.
C1_PartialCloseAcrossLots ==
    PartialCloseCase =>
        /\ result.trades = 1 /\ result.days = 1
        /\ Len(committed.trades) = 1
        /\ Len(committed.trade_days) = 1
        /\ LET t == committed.trades[1]
               d == committed.trade_days[1]
           IN  /\ t.direction = "LONG"
               /\ t.status = "open"
               /\ t.quantity_opened = Walked[1].quantity + Walked[2].quantity
               /\ t.quantity_closed = Walked[3].quantity
               /\ t.gross_pnl_total = PartialCloseGross
               /\ t.commission_total = PartialCloseCommission
               /\ d.trade_id = t.id
               /\ d.shares_closed = Walked[3].quantity
               /\ d.realized_gross = PartialCloseGross
               /\ d.realized_net = PartialCloseGross + PartialCloseCommission

\* the instance 10@100, 10@110, 15@120 with commissions -1.0, -1.0, -1.5:
\* gross 250, commissions -3.5, net 246.5
C1_Witness ==
    /\ PartialCloseCase
    /\ Walked[1].quantity = 10 /\ Walked[1].price = Dollars(100)
    /\ Walked[2].quantity = 10 /\ Walked[2].price = Dollars(110)
    /\ Walked[3].quantity = 15 /\ Walked[3].price = Dollars(120)
    /\ Walked[1].commission = 0 - Scale /\ Walked[2].commission = 0 - Scale
    /\ 2 * Walked[3].commission = 0 - 3 * Scale
    /\ committed.trades[1].gross_pnl_total = Dollars(250)
    /\ 2 * committed.trades[1].commission_total = 0 - Dollars(7)
    /\ 2 * committed.trade_days[1].realized_net = Dollars(493)

\* ----------------------------------------------------------------- C2, C3
\* the next step of the walk processes an opposite-side execution whose
\* quantity exceeds the open position
FlipStep ==
    /\ pc = "walk"
    /\ pos <= Len(groups[gi].exes)
    /\ pc' = "walk" /\ pos' = pos + 1
    /\ current_trade # <<>>
    /\ LET exe == groups[gi].exes[pos]
           t == TradeById(trades, current_trade[1])
       IN  /\ ~Skipped(exe)
           /\ t.direction # OpenDirection(exe.side)
           /\ 0 < OpenPosition
           /\ OpenPosition < exe.quantity

\* value of the open lots at their entry prices
RECURSIVE LotsValue(_)
LotsValue(lots) ==
    IF Len(lots) = 0 THEN 0
    ELSE Head(lots).qty * Head(lots).price + LotsValue(Tail(lots))

FlipOutcome ==
    LET exe == groups[gi].exes[pos]
        old == TradeById(trades, current_trade[1])
        n == OpenPosition
        sign == IF old.direction = "LONG" THEN 1 ELSE 0 - 1
    IN  /\ Len(trades') = Len(trades) + 1
        /\ LET closed == TradeById(trades', old.id)
               new == trades'[Len(trades')]
           IN  /\ closed.status = "closed"
               /\ closed.quantity_opened = old.quantity_opened
               /\ closed.quantity_closed = closed.quantity_opened
               /\ closed.gross_pnl_total = old.gross_pnl_total
                      + sign * (n * exe.price - LotsValue(open_lots))
               /\ new.id # old.id
               /\ new.direction = OpenDirection(exe.side)
               /\ new.direction # old.direction
               /\ new.status = "open"
               /\ new.quantity_opened = exe.quantity - n
               /\ new.quantity_closed = 0
               /\ new.gross_pnl_total = 0
               /\ current_trade' = <<new.id>>
               /\ open_lots' = <<OpenLot(exe.quantity - n, exe.price, exe.id)>>

\* C2: an opposite-side execution of quantity q against an open position n,
\* 0 < n < q, leaves two Trade rows: the old one closed, with quantity_closed
\* = quantity_opened and the gross of n shares only, and a new one in the
\* opposite direction, open, with quantity_opened = q - n, quantity_closed =
\* 0, gross 0 and the single open lot q - n at the execution's price.
C2_Flip == [][FlipStep => FlipOutcome]_vars

\* BUY 10@100 then SELL 15@110: a closed LONG with gross 100 and an open
\* SHORT of 5 at 110
C2_Witness ==
    /\ pc = "walk"
    /\ Len(trades) = 2
    /\ trades[1].direction = "LONG" /\ trades[1].status = "closed"
    /\ trades[1].quantity_opened = 10 /\ trades[1].quantity_closed = 10
    /\ trades[1].gross_pnl_total = Dollars(100)
    /\ trades[2].direction = "SHORT" /\ trades[2].status = "open"
    /\ trades[2].quantity_opened = 5 /\ trades[2].quantity_closed = 0
    /\ Len(open_lots) = 1
    /\ open_lots[1].qty = 5 /\ open_lots[1].price = Dollars(110)

\* C3: on a flip with commission c, quantity q and close_quantity n, the
\* closing trade's commission_total grows by exactly c*n/q and the new
\* trade's commission_total is exactly c*(q-n)/q.
C3_FlipCommissionProRated ==
    [][FlipStep =>
         LET exe == groups[gi].exes[pos]
             old == TradeById(trades, current_trade[1])
             n == OpenPosition
         IN  /\ TradeById(trades', old.id).commission_total
                  = old.commission_total
                    + (exe.commission * n) \div exe.quantity
             /\ trades'[Len(trades')].commission_total
                  = (exe.commission * (exe.quantity - n)) \div exe.quantity
      ]_vars

\* --------------------------------------------------------------------- C4
\* C4: during the walk of an instrument the absolute open position
\* (quantity_opened - quantity_closed of the current trade, 0 without one)
\* equals the sum of the quantities of the queued lots, and the queue is
\* empty exactly when the position is flat.
C4_LotConservation ==
    pc = "walk" =>
        /\ OpenPosition = SumLots(open_lots)
        /\ (Len(open_lots) = 0) <=> (OpenPosition = 0)

\* a partial close has cut into the queue and two lots remain
C4_Witness ==
    /\ pc = "walk"
    /\ current_trade # <<>>
    /\ TradeById(trades, current_trade[1]).quantity_closed > 0
    /\ Len(open_lots) = 2
    /\ open_lots[1].qty = 5

\* --------------------------------------------------------------------- C5
\* The reference: the executions of one instrument read as signed position
\* arithmetic, without lots.  A round trip's gross is the value of what
\* closed it minus the value of what opened it (negated for SHORT); it
\* depends on the executions only through the sums quantity * price of the
\* opening and of the closing quantities, so it is the same for every way of
\* splitting them into partial executions at the same prices.
RefStart == [position |-> 0, entry |-> 0, exit |-> 0, opened |-> 0,
             closed |-> <<>>]

RECURSIVE RefClosed(_, _)
RefClosed(exes, r) ==
    IF Len(exes) = 0 THEN r.closed
    ELSE
      LET e == Head(exes)
          d == SideSign(e.side)
          held == IF r.position < 0 THEN 0 - r.position ELSE r.position
      IN
      IF Skipped(e) THEN RefClosed(Tail(exes), r)
      ELSE IF r.position = 0 \/ (r.position > 0) = (d > 0)
      THEN RefClosed(Tail(exes),
               [r EXCEPT !.position = @ + d * e.quantity,
                         !.entry = @ + e.quantity * e.price,
                         !.opened = @ + e.quantity])
      ELSE
        LET c == Min(held, e.quantity)
            exit2 == r.exit + c * e.price
            rest == e.quantity - c
        IN  IF held - c # 0
            THEN RefClosed(Tail(exes),
                     [r EXCEPT !.position = @ + d * c, !.exit = exit2])
            ELSE RefClosed(Tail(exes),
                     [position |-> d * rest, entry |-> rest * e.price,
                      exit |-> 0, opened |-> rest,
                      closed |-> Append(r.closed,
                          [direction |-> IF r.position > 0 THEN "LONG"
                                         ELSE "SHORT",
                           quantity |-> r.opened,
                           gross |-> IF r.position > 0 THEN exit2 - r.entry
                                     ELSE r.entry - exit2])])

\* the closed trades of one instrument, oldest first
ClosedTradesOf(tables, g) ==
    LET Mine(t) == /\ t.conid = g.conid /\ t.symbol = g.symbol
                   /\ t.status = "closed"
        rows == SelectSeq(tables.trades, Mine)
    IN  [i \in 1..Len(rows) |->
            [direction |-> rows[i].direction,
             quantity |-> rows[i].quantity_closed,
             gross |-> rows[i].gross_pnl_total]]

\* C5: every closed trade's gross_pnl_total is the sum over its matched
\* slices of (exit - entry) * quantity (negated for SHORT): the value of its
\* closing quantities minus the value of its opening quantities, each opened
\* share matched exactly once, whatever the split into partial executions.
C5_PnlConservation ==
    ReturnedOk =>
        /\ \A i \in 1..Len(committed.trades) :
              committed.trades[i].status = "closed" =>
                  committed.trades[i].quantity_closed
                      = committed.trades[i].quantity_opened
        /\ LET gs == GroupByInstrument(Walked, <<>>)
           IN  \A k \in 1..Len(gs) :
                  ClosedTradesOf(committed, gs[k]) = RefClosed(gs[k].exes, RefStart)

\* a SHORT of 15 opened by two executions at different prices and closed by
\* a third
C5_Witness ==
    /\ ReturnedOk
    /\ Len(committed.trades) = 1
    /\ committed.trades[1].status = "closed"
    /\ committed.trades[1].direction = "SHORT"
    /\ committed.trades[1].quantity_opened = 15
    /\ Len(Walked) = 3
    /\ Walked[1].price # Walked[2].price
    /\ committed.trades[1].gross_pnl_total # 0

\* ----------------------------------------------------------------- C6, C7
SessionTables == Tables(trades, trade_executions, trade_days)

\* C6: for every closed trade the realized_gross of its TradeDay rows adds
\* up to its gross_pnl_total, also when its closes fall on different local
\* days.
C6_DayGrossSum ==
    \A i \in 1..Len(trades) :
        trades[i].status = "closed" =>
            SumField(DaysOf(SessionTables, trades[i].id), "realized_gross")
                = trades[i].gross_pnl_total

\* a trade closed on two local days, with realized gross on both
C6_Witness ==
    /\ ReturnedOk
    /\ Len(committed.trades) = 1
    /\ committed.trades[1].status = "closed"
    /\ Len(committed.trade_days) = 2
    /\ committed.trade_days[1].shares_closed > 0
    /\ committed.trade_days[2].shares_closed > 0
    /\ committed.trade_days[1].realized_gross # 0
    /\ committed.trade_days[2].realized_gross # 0

\* C7: for every closed trade the commissions of its TradeDay rows add up to
\* its commission_total.
C7_DayCommissionSum ==
    \A i \in 1..Len(trades) :
        trades[i].status = "closed" =>
            SumField(DaysOf(SessionTables, trades[i].id), "commissions")
                = trades[i].commission_total

\* ----------------------------------------------------------------- C8, C9
\* rows with the surrogate ids taken out: a Trade without its id, a child
\* row with the rank of its Trade among the Trade rows (0: no such Trade)
RankOf(tables, id) ==
    LET hit == {i \in 1..Len(tables.trades) : tables.trades[i].id = id}
    IN  IF hit = {} THEN 0 ELSE CHOOSE i \in hit : TRUE

Anonymous(tables) ==
    [trades |->
        [i \in 1..Len(tables.trades) |->
            [tables.trades[i] EXCEPT !.id = 0]],
     trade_executions |->
        [i \in 1..Len(tables.trade_executions) |->
            [tables.trade_executions[i] EXCEPT
                !.trade_id = RankOf(tables, @)]],
     trade_days |->
        [i \in 1..Len(tables.trade_days) |->
            [tables.trade_days[i] EXCEPT !.trade_id = RankOf(tables, @)]]]

OldIds == {before.tables.trades[i].id : i \in 1..Len(before.tables.trades)}

\* the call that returned last was made on the rows a successful call left
SecondRun == ReturnedOk /\ runs >= 2 /\ before.result.status = "ok"

\* C8: a second reconstruct_for_account on unchanged executions returns the
\* same counts and leaves the same Trade, TradeExecution and TradeDay rows
\* up to surrogate ids, and no row of the first run is left.
C8_Idempotent ==
    SecondRun =>
        /\ result = before.result
        /\ Anonymous(committed) = Anonymous(before.tables)
        /\ \A i \in 1..Len(committed.trades) :
              committed.trades[i].id \notin OldIds
        /\ \A i \in 1..Len(committed.trade_executions) :
              committed.trade_executions[i].trade_id \notin OldIds
        /\ \A i \in 1..Len(committed.trade_days) :
              committed.trade_days[i].trade_id \notin OldIds

\* the second run of a history with a flip: two trades, three links
C8_Witness ==
    /\ SecondRun
    /\ Len(committed.trades) = 2
    /\ Len(committed.trade_executions) = 3
    /\ Len(committed.trade_days) = 2

\* C9: when reconstruct_for_account fails after it has started, the rows the
\* account had before the call are still there, unchanged.
C9_AtomicRebuild ==
    (pc = "idle" /\ result.status = "error") =>
        /\ committed = before.tables
        /\ SessionTables = before.tables

\* -------------------------------------------------------------------- C10
\* date.weekday() of a local day number: 0 = Monday ... 5 = Saturday,
\* 6 = Sunday
Weekday(day) == day % 7

\* C10: no TradeDay is bucketed on a Saturday or a Sunday.
C10_WeekendRollBack ==
    \A i \in 1..Len(trade_days) :
        Weekday(trade_days[i].day_date_local) \notin {5, 6}

\* -------------------------------------------------------------------- C11
\* the step is a call of import_executions
ImportStep == imported'.calls = imported.calls + 1

\* at most one Execution per (account_id, ib_execution_id)
StoreUnique(rows) ==
    \A i, j \in 1..Len(rows) :
        (/\ rows[i].account_id = rows[j].account_id
         /\ rows[i].ib_execution_id = rows[j].ib_execution_id) => i = j

DuplicateKinds == {"duplicate in file", "duplicate in DB"}

\* what a call of import_executions does, told from the store before it,
\* the batch and the account
ImportOutcome ==
    LET acct == imported'.account_id
        batch == imported'.parsed_executions
        known == ExistingIds(executions, acct)
        IdOf(k) == Strip(batch[k].ib_execution_id)
        Dup(k) == /\ IdOf(k) # <<>>
                  /\ \/ IdOf(k) \in known
                     \/ \E m \in 1..(k - 1) : IdOf(m) = IdOf(k)
        dups == {k \in 1..Len(batch) : Dup(k)}
        fresh == {k \in 1..Len(batch) : IdOf(k) # <<>> /\ ~Dup(k)}
        added == SubSeq(executions', Len(executions) + 1, Len(executions'))
        dupwarn == {i \in 1..Len(imported'.warnings) :
                       imported'.warnings[i].kind \in DuplicateKinds}
    IN  /\ SubSeq(executions', 1, Len(executions)) = executions
        /\ imported'.total = Len(batch)
        /\ imported'.newly_inserted = Cardinality(fresh)
        /\ Len(added) = Cardinality(fresh)
        /\ \A i \in 1..Len(added) :
              \E k \in fresh :
                  added[i] = Execution(added[i].id, acct, IdOf(k), batch[k])
        /\ Cardinality(dupwarn) = Cardinality(dups)
        /\ \A k \in dups :
              \E i \in dupwarn :
                  imported'.warnings[i].ib_execution_id = IdOf(k)
        /\ (\A k \in 1..Len(batch) : IdOf(k) = <<>> \/ IdOf(k) \in known)
              => executions' = executions /\ imported'.newly_inserted = 0
        /\ (/\ imported.calls > 0
            /\ imported.account_id = acct
            /\ imported.parsed_executions = batch)
              => executions' = executions /\ imported'.newly_inserted = 0

\* C11: the store holds at most one Execution per (account_id,
\* ib_execution_id); a call of import_executions inserts exactly the records
\* whose id is neither stored for the account nor seen earlier in the batch,
\* reports every other record with an id as a skipped duplicate, and
\* inserts nothing and leaves the store unchanged when it is given the batch
\* of the call before it again.
C11_DuplicateRejection ==
    [][(ImportStep => ImportOutcome) /\ StoreUnique(executions')]_vars

\* two records were imported and a second batch with their two ids, for the
\* same account, inserted nothing and was answered with two warnings
C11_Witness ==
    /\ imported.calls = 2
    /\ Len(executions) = 2
    /\ executions[1].account_id = imported.account_id
    /\ executions[2].account_id = imported.account_id
    /\ imported.total = 2
    /\ imported.newly_inserted = 0
    /\ Len(imported.warnings) = 2
    /\ imported.warnings[1].kind = "duplicate in DB"
    /\ imported.warnings[2].kind = "duplicate in DB"
    /\ imported.warnings[1].ib_execution_id
           # imported.warnings[2].ib_execution_id

\* -------------------------------------------------------------------- C12
\* the Trade rows the session sees and the committed ones
AllTrades == trades \o committed.trades

C12_Witness ==
    /\ ReturnedOk
    /\ Len(committed.trades) = 1
    /\ committed.trades[1].status = "closed"
    /\ committed.trades[1].quantity_closed = 15
    /\ Len(Walked) = 3
    /\ Walked[1].side # Walked[2].side
    /\ Walked[2].side = Walked[3].side

\* -------------------------------------------------------------------- C13
\* C13 as stated: every Trade row, open or closed, has net_pnl_total =
\* gross_pnl_total + commission_total.
C13_NetEveryTrade ==
    \A i \in 1..Len(AllTrades) :
        AllTrades[i].net_pnl_total
            = AllTrades[i].gross_pnl_total + AllTrades[i].commission_total

\* C13 amended: every Trade row with status closed has net_pnl_total =
\* gross_pnl_total + commission_total.
C13_NetClosedTrade ==
    \A i \in 1..Len(AllTrades) :
        AllTrades[i].status = "closed" =>
            AllTrades[i].net_pnl_total
                = AllTrades[i].gross_pnl_total + AllTrades[i].commission_total

\* a closed trade with a loss and the commissions of three executions
C13_Witness ==
    /\ ReturnedOk
    /\ Len(committed.trades) = 1
    /\ Len(committed.trade_executions) = 3
    /\ committed.trades[1].status = "closed"
    /\ committed.trades[1].gross_pnl_total < 0
    /\ committed.trades[1].commission_total < 0 - 3 * Scale
    /\ committed.trades[1].net_pnl_total
           < committed.trades[1].gross_pnl_total - 3 * Scale

\* -------------------------------------------------------------------- C14
\* net_pnl_total of the Trade id before the step (0: no such row yet)
NetBefore(id) ==
    IF \E i \in 1..Len(trades) : trades[i].id = id
    THEN TradeById(trades, id).net_pnl_total
    ELSE 0

\* the step processes an execution that empties the lot queue of the trade id
EmptiesQueueOf(id) ==
    /\ pc = "walk"
    /\ pos <= Len(groups[gi].exes)
    /\ pos' = pos + 1
    /\ current_trade = <<id>>
    /\ Len(open_lots) > 0
    /\ groups[gi].exes[pos].quantity >= SumLots(open_lots)
    /\ OpenDirection(groups[gi].exes[pos].side)
           # TradeById(trades, id).direction
    /\ current_trade' # <<id>>

\* C14: a Trade that is open has net_pnl_total = 0, whatever gross and
\* commissions it has realized; net_pnl_total is written only by the
\* execution that empties the trade's lot queue, and then it is
\* gross_pnl_total + commission_total.
C14_NetOnlyOnFullClose ==
    [][\A i \in 1..Len(trades') :
          LET t == trades'[i]
          IN  /\ t.status = "open" => t.net_pnl_total = 0
              /\ t.net_pnl_total # NetBefore(t.id) =>
                     /\ EmptiesQueueOf(t.id)
                     /\ t.status = "closed"
                     /\ t.net_pnl_total
                            = t.gross_pnl_total + t.commission_total
      ]_vars

\* the call has ended with an open trade that has realized gross and
\* commissions from a partial close, and net_pnl_total 0
C14_Witness ==
    /\ ReturnedOk
    /\ Len(committed.trades) = 1
    /\ committed.trades[1].status = "open"
    /\ committed.trades[1].quantity_closed > 0
    /\ committed.trades[1].gross_pnl_total > 0
    /\ committed.trades[1].commission_total < 0
    /\ committed.trades[1].net_pnl_total = 0

\* -------------------------------------------------------------------- C15
\* the TradeDay rows the session sees and the committed ones
AllTradeDays == trade_days \o committed.trade_days

\* C15: every TradeDay row has realized_net = realized_gross + commissions,
\* commissions being the row's stored field.
C15_DayNet ==
    \A i \in 1..Len(AllTradeDays) :
        AllTradeDays[i].realized_net
            = AllTradeDays[i].realized_gross + AllTradeDays[i].commissions

\* -------------------------------------------------------------------- C16
\* the day is the first day of the trade and no share was closed on it
FirstDayNoClose(t, d) ==
    d.day_date_local = LocalDate(t.opened_at_utc) /\ d.shares_closed = 0

\* the day is the one on which the last share of the trade closed
LastCloseDay(t, d) ==
    t.status = "closed" /\ d.day_date_local = LocalDate(t.closed_at_utc)

\* C16: a TradeDay is opened only if it is the first day of its trade and
\* no share was closed on it, closed only if it is the day on which the
\* trade's last share closed, and adjusted on every other day.
C16_DayStatusPolicy ==
    \A i \in 1..Len(trade_days) :
        LET d == trade_days[i]
            t == TradeById(trades, d.trade_id)
        IN  /\ d.day_status = "opened" => FirstDayNoClose(t, d)
            /\ d.day_status = "closed" => LastCloseDay(t, d)
            /\ (~FirstDayNoClose(t, d) /\ ~LastCloseDay(t, d))
                  => d.day_status = "adjusted"

\* --------------------------------------------------------------- C17, C18
\* the step processes an execution (one that has an instant)
ProcessStep ==
    /\ pc = "walk"
    /\ pos <= Len(groups[gi].exes)
    /\ pos' = pos + 1
    /\ ~Skipped(groups[gi].exes[pos])

\* the links the step has added
NewLinks ==
    SubSeq(trade_executions', Len(trade_executions) + 1,
           Len(trade_executions'))

\* the execution is of the side opposite to the open position
ClosingStep ==
    /\ ProcessStep
    /\ current_trade # <<>>
    /\ TradeById(trades, current_trade[1]).direction
           # OpenDirection(groups[gi].exes[pos].side)

\* every link of after is a link of before, in the same order
RECURSIVE IsSubSeq(_, _)
IsSubSeq(after, before_) ==
    IF Len(after) = 0 THEN TRUE
    ELSE IF Len(before_) = 0 THEN FALSE
    ELSE IF Head(after) = Head(before_)
         THEN IsSubSeq(Tail(after), Tail(before_))
         ELSE IsSubSeq(after, Tail(before_))

LinksOutcome ==
    LET exe == groups[gi].exes[pos]
        n == Len(NewLinks)
    IN  /\ SubSeq(trade_executions', 1, Len(trade_executions))
               = trade_executions
        /\ \A i \in 1..n : NewLinks[i].execution_id = exe.id
        /\ IF FlipStep
           THEN /\ n = 2
                /\ NewLinks[1].role = "close"
                /\ NewLinks[1].trade_id = current_trade[1]
                /\ NewLinks[2].role = "open"
                /\ NewLinks[2].trade_id = current_trade'[1]
                /\ NewLinks[2].trade_id # NewLinks[1].trade_id
           ELSE /\ n = 1
                /\ IF ClosingStep
                   THEN NewLinks[1].trade_id = current_trade[1]
                   ELSE /\ NewLinks[1].role = "open"
                        /\ NewLinks[1].trade_id = current_trade'[1]

\* C17: a processed execution adds exactly one TradeExecution link, of its
\* execution_id; a flip adds exactly two, a close link on the trade it
\* closes and an open link on the trade it opens; a link, once created, is
\* never changed (the rebuild's delete and a rollback only remove links).
C17_LinksPerExecution ==
    [][/\ ProcessStep => LinksOutcome
       /\ ~ProcessStep =>
             \/ trade_executions' = trade_executions
             \/ /\ pc' = "idle" \/ pc = "idle"
                /\ IsSubSeq(trade_executions', trade_executions)
      ]_vars

\* BUY, BUY, then a SELL that flips: four links, the last two of the same
\* execution, close on the first trade and open on the second
C17_Witness ==
    /\ ReturnedOk
    /\ Len(committed.trades) = 2
    /\ Len(committed.trade_executions) = 4
    /\ committed.trade_executions[3].execution_id
           = committed.trade_executions[4].execution_id
    /\ committed.trade_executions[3].role = "close"
    /\ committed.trade_executions[4].role = "open"
    /\ committed.trade_executions[3].trade_id = committed.trades[1].id
    /\ committed.trade_executions[4].trade_id = committed.trades[2].id

Abs(n) == IF n < 0 THEN 0 - n ELSE n

\* C18: the close link of a closing execution has |signed_qty| equal to the
\* quantity closed, min(open position, execution quantity), also on a flip.
C18_CloseLinkQuantity ==
    [][ClosingStep =>
          /\ Len(NewLinks) >= 1
          /\ NewLinks[1].role = "close"
          /\ Abs(NewLinks[1].signed_qty)
                 = Min(OpenPosition, groups[gi].exes[pos].quantity)
      ]_vars

\* -------------------------------------------------------------------- C19
\* the group that processes the execution e (0: none)
GroupOf(e) ==
    LET hit == {i \in 1..Len(groups) :
                   \E k \in 1..Len(groups[i].exes) : groups[i].exes[k] = e}
    IN  IF hit = {} THEN 0 ELSE CHOOSE i \in hit : TRUE

\* C19: two executions with the same conid are processed by the same
\* tracker, whatever their symbols; two executions without conid are
\* processed by the same tracker exactly when their symbols are equal; an
\* execution with a conid and one without are never processed together.
C19_PartitionByConid ==
    pc = "walk" =>
        \A i, j \in 1..Len(Walked) :
            LET a == Walked[i]
                b == Walked[j]
            IN  /\ GroupOf(a) # 0
                /\ (a.conid # 0 /\ b.conid # 0) =>
                      ((GroupOf(a) = GroupOf(b)) <=> (a.conid = b.conid))
                /\ (a.conid = 0 /\ b.conid = 0) =>
                      ((GroupOf(a) = GroupOf(b)) <=> (a.symbol = b.symbol))
                /\ ((a.conid = 0) # (b.conid = 0)) => GroupOf(a) # GroupOf(b)

\* -------------------------------------------------------------------- C20
\* a walk that starts from an empty store
FreshWalker ==
    [open_lots |-> <<>>, current_trade |-> <<>>, daily_pnl |-> <<>>,
     trades_created |-> 0, trade_days_created |-> 0, trades |-> <<>>,
     trade_executions |-> <<>>, trade_days |-> <<>>, next_id |-> 1]

RECURSIVE WalkAll(_, _, _)
WalkAll(w, ctx, exes) ==
    IF Len(exes) = 0 THEN w
    ELSE WalkAll(ProcessExecution(w, ctx, Head(exes)), ctx, Tail(exes))

\* the rows a rebuild leaves when the executions of the group g are the only
\* executions of the account
Alone(acct, g) ==
    LET w == FinishInstrument(WalkAll(FreshWalker, Context(acct, g), g.exes))
    IN  Tables(w.trades, w.trade_executions, w.trade_days)

\* the rows of the instrument of the group g among all rows
RowsOfInstrument(tables, g) ==
    LET Mine(t) == t.conid = g.conid /\ t.symbol = g.symbol
        ids == {tables.trades[i].id :
                   i \in {j \in 1..Len(tables.trades) : Mine(tables.trades[j])}}
        Child(r) == r.trade_id \in ids
    IN  Tables(SelectSeq(tables.trades, Mine),
               SelectSeq(tables.trade_executions, Child),
               SelectSeq(tables.trade_days, Child))

\* C20: the Trade, TradeExecution and TradeDay rows a rebuild leaves for an
\* instrument are, up to Trade ids, the rows it leaves when that
\* instrument's executions are the only ones of the account: executions of
\* other instruments, before, after or between them, change nothing.
C20_InstrumentIndependence ==
    ReturnedOk =>
        LET gs == GroupByInstrument(Walked, <<>>)
        IN  \A k \in 1..Len(gs) :
               Anonymous(RowsOfInstrument(committed, gs[k]))
                   = Anonymous(Alone(account_id, gs[k]))

\* two executions of one instrument with an execution of another between
\* them, which opens a position of its own
C20_Witness ==
    /\ ReturnedOk
    /\ Len(Walked) = 3
    /\ InstrumentKey(Walked[1]) = InstrumentKey(Walked[3])
    /\ InstrumentKey(Walked[1]) # InstrumentKey(Walked[2])
    /\ Walked[1].side # Walked[3].side
    /\ Walked[1].side = Walked[2].side
    /\ Len(committed.trades) = 2
    /\ committed.trades[1].status = "closed"
    /\ committed.trades[2].status = "open"

\* -------------------------------------------------------------------- C21
\* the execution has no instant, or one that cannot be shown in the report
\* timezone (the two such instants of the "missing" domain)
NoUsableInstant(e) == e.ts_utc \in {NoTimestamp, 2}

HasUsableInstant(e) == ~NoUsableInstant(e)

\* the rows a rebuild leaves when the executions without usable instant are
\* taken out of the store (one instrument)
RowsWithoutUnusable ==
    LET usable == SelectSeq(Walked, HasUsableInstant)
    IN  IF Len(usable) = 0 THEN Tables(<<>>, <<>>, <<>>)
        ELSE Alone(account_id, GroupByInstrument(usable, <<>>)[1])

\* C21: the step that meets an execution without usable instant changes no
\* Trade, link, TradeDay, lot, day-bucket entry or count and the walk goes
\* on; the rows and counts of the finished rebuild are those of a rebuild
\* without such executions.
C21_MissingInstantSkipped ==
    /\ [](ReturnedOk =>
             /\ Anonymous(committed) = Anonymous(RowsWithoutUnusable)
             /\ result.trades = Len(RowsWithoutUnusable.trades)
             /\ result.days = Len(RowsWithoutUnusable.trade_days))
    /\ [][(/\ pc = "walk"
            /\ pos <= Len(groups[gi].exes)
            /\ pos' = pos + 1
            /\ NoUsableInstant(groups[gi].exes[pos]))
           => /\ pc' = "walk"
              /\ UNCHANGED <<trades, trade_executions, trade_days, open_lots,
                             current_trade, daily_pnl, trades_created,
                             trade_days_created, next_id, result>>
       ]_vars

\* an execution without instant and one whose instant cannot be converted
\* were walked before a third, which alone left rows
C21_Witness ==
    /\ ReturnedOk
    /\ Len(Walked) = 3
    /\ Walked[1].ts_utc = NoTimestamp
    /\ Walked[2].ts_utc = 2
    /\ Walked[3].ts_utc = 87
    /\ Len(committed.trades) = 1
    /\ Len(committed.trade_executions) = 1
    /\ committed.trade_executions[1].execution_id = Walked[3].id
    /\ committed.trades[1].quantity_opened = Walked[3].quantity
    /\ result.trades = 1 /\ result.days = 1

\* -------------------------------------------------------------------- C22
\* quantity_closed of the trade that is current before the step, before and
\* after it
ClosedBefore ==
    IF current_trade = <<>> THEN 0
    ELSE TradeById(trades, current_trade[1]).quantity_closed

ClosedAfter ==
    IF current_trade = <<>> THEN 0
    ELSE TradeById(trades', current_trade[1]).quantity_closed

\* the queue after the step is the queue before it with k lots taken off
\* the front, the lot then in front made no larger, every lot behind it
\* untouched, and at most one lot, of the execution of the step, put at the
\* tail; what left the queue is what the trade closed; a lot that was cut
\* is not left empty
FifoTransition ==
    \E k \in 0..Len(open_lots), a \in {0, 1} :
        LET kept == Len(open_lots) - k
        IN  /\ Len(open_lots') = kept + a
            /\ \A i \in 1..kept :
                  /\ open_lots'[i].price = open_lots[k + i].price
                  /\ open_lots'[i].exe_id = open_lots[k + i].exe_id
                  /\ IF i = 1
                     THEN open_lots'[i].qty <= open_lots[k + i].qty
                     ELSE open_lots'[i].qty = open_lots[k + i].qty
            /\ a = 1 =>
                  open_lots'[kept + 1].exe_id = groups[gi].exes[pos].id
            /\ SumLots(open_lots) - SumLots(SubSeq(open_lots', 1, kept))
                  = ClosedAfter - ClosedBefore
            /\ (kept >= 1 /\ open_lots'[1].qty < open_lots[k + 1].qty)
                  => open_lots'[1].qty > 0

\* C22: every step of the walk consumes lots from the front of the queue
\* only, decreases a lot only when all older lots have been removed, never
\* increases a lot, removes a lot when it reaches zero and puts new lots at
\* the tail.
C22_StrictFifo ==
    [][(pc = "walk" /\ pos <= Len(groups[gi].exes) /\ pos' = pos + 1)
          => FifoTransition]_vars

\* two lots, then a close that removed the first and cut into the second
C22_Witness ==
    /\ pc = "walk"
    /\ pos = 4
    /\ groups[gi].exes[1].side = groups[gi].exes[2].side
    /\ groups[gi].exes[1].price # groups[gi].exes[2].price
    /\ Len(open_lots) = 1
    /\ open_lots[1].exe_id = groups[gi].exes[2].id
    /\ open_lots[1].qty < groups[gi].exes[2].quantity

\* -------------------------------------------------------------------- C23
\* the committed Trade rows of the account, and the committed TradeDay rows
\* of those trades
TradesOfAccount(acct) ==
    LET Mine(t) == t.account_id = acct
    IN  SelectSeq(committed.trades, Mine)

TradeDaysOfAccount(acct) ==
    LET Mine(d) == d.trade_id \in TradeIdsOf(committed, acct)
    IN  SelectSeq(committed.trade_days, Mine)

\* C23: when reconstruct_for_account has returned, the pair it returned is
\* the number of Trade rows and the number of TradeDay rows the store holds
\* for the account; (0, 0) for an account without executions.
C23_ReturnedCounts ==
    ReturnedOk =>
        /\ result.trades = Len(TradesOfAccount(account_id))
        /\ result.days = Len(TradeDaysOfAccount(account_id))
        /\ Len(Walked) = 0 => result.trades = 0 /\ result.days = 0

\* a flip on the day after the opening: (2, 3), the second trade still open
C23_Witness ==
    /\ ReturnedOk
    /\ result.trades = 2
    /\ result.days = 3
    /\ committed.trades[2].status = "open"
    /\ Len(committed.trade_days) = 3

\* -------------------------------------------------------------------- C24
\* the execution a link points to
ExecutionOf(link) ==
    executions[CHOOSE i \in 1..Len(executions) :
                   executions[i].id = link.execution_id]

\* the local day of the execution of a link
DayOfLink(link) == LocalDate(ExecutionOf(link).ts_utc)

\* the link's execution is on the side that opens or adds to the trade
OpeningEvent(link) ==
    OpenDirection(ExecutionOf(link).side)
        = TradeById(committed.trades, link.trade_id).direction

\* C24: after a rebuild no two TradeDay rows have the same trade and local
\* day; every day on which an execution was linked to a trade (opened it,
\* added to it or closed part of it) has a TradeDay row of that trade; and
\* every TradeDay row has shares_closed > 0 or is of a day on which an
\* execution opened or added to its trade.
C24_OneTradeDayPerDay ==
    ReturnedOk =>
        LET days == committed.trade_days
            links == committed.trade_executions
        IN  /\ \A i, j \in 1..Len(days) :
                   (/\ days[i].trade_id = days[j].trade_id
                    /\ days[i].day_date_local = days[j].day_date_local)
                   => i = j
            /\ \A k \in 1..Len(links) :
                   \E i \in 1..Len(days) :
                      /\ days[i].trade_id = links[k].trade_id
                      /\ days[i].day_date_local = DayOfLink(links[k])
            /\ \A i \in 1..Len(days) :
                   \/ days[i].shares_closed > 0
                   \/ \E k \in 1..Len(links) :
                         /\ links[k].trade_id = days[i].trade_id
                         /\ DayOfLink(links[k]) = days[i].day_date_local
                         /\ OpeningEvent(links[k])

\* a trade opened on one day, added to on that day and partly closed on a
\* later one: three links, two TradeDay rows, the second with closed shares
\* and no opening event
C24_Witness ==
    /\ ReturnedOk
    /\ Len(committed.trades) = 1
    /\ Len(committed.trade_executions) = 3
    /\ Len(committed.trade_days) = 2
    /\ DayOfLink(committed.trade_executions[1])
           = DayOfLink(committed.trade_executions[2])
    /\ committed.trade_days[2].shares_closed > 0
    /\ ~OpeningEvent(committed.trade_executions[3])

\* -------------------------------------------------------------------- C25
\* the lot queue is empty while the open position is not zero, or the other
\* way round
Inconsistent == (Len(open_lots) = 0) # (OpenPosition = 0)

\* a Trade row that is open although nothing of it is open
InconsistentTrade(t) ==
    t.status = "open" /\ t.quantity_opened = t.quantity_closed

\* C25: the walk never goes on from a state in which the queue is empty and
\* the position is not, or the queue is not empty and the position is zero
\* (the call has ended with an error instead), and no rebuild that returned
\* has persisted a Trade row that is open with nothing open.
C25_InvariantViolationAborts ==
    /\ pc = "walk" => ~Inconsistent
    /\ ReturnedOk =>
          \A i \in 1..Len(committed.trades) :
             ~InconsistentTrade(committed.trades[i])

\* -------------------------------------------------------------------- C26
\* no record parse_xml handed to the importer has quantity 0 or price 0
ParserEmitsNoZero ==
    \A i \in 1..Len(imported.parsed_executions) :
       /\ imported.parsed_executions[i].quantity # 0
       /\ imported.parsed_executions[i].price # 0

\* the step that is about to run computes the flip ratio
\* remaining / exe.quantity only for an execution of quantity > 0
RatioGuarded ==
    (/\ pc = "walk"
     /\ pos <= Len(groups[gi].exes)
     /\ ~Skipped(groups[gi].exes[pos])
     /\ current_trade # <<>>
     /\ TradeById(trades, current_trade[1]).direction
            # OpenDirection(groups[gi].exes[pos].side)
     /\ groups[gi].exes[pos].quantity
            - CloseQty(groups[gi].exes[pos].quantity, open_lots) > 0)
    => groups[gi].exes[pos].quantity > 0

\* C26: the parser emits no execution with quantity 0 or price 0, and the
\* walk computes the flip ratio only when the execution's quantity is > 0.
C26_ZeroQuantityHandling == ParserEmitsNoZero /\ RatioGuarded

\* -------------------------------------------------------------------- C27
\* the executions of a list that the walk processes
Processed(exes) ==
    LET Used(e) == ~Skipped(e) IN SelectSeq(exes, Used)

\* C27: after a rebuild the commission_total of the Trade rows of an
\* instrument add up to the commissions of the instrument's processed
\* executions.
C27_CommissionConservation ==
    ReturnedOk =>
        LET gs == GroupByInstrument(Walked, <<>>)
        IN  \A k \in 1..Len(gs) :
               SumField(RowsOfInstrument(committed, gs[k]).trades,
                        "commission_total")
                   = SumField(Processed(gs[k].exes), "commission")

\* -------------------------------------------------------------------- C28
\* the trades ts of one instrument, in the order of their creation: every
\* trade but the last is closed, and none opens before the one before it
\* closed
Sequential(ts) ==
    \A i \in 1..Len(ts) - 1 :
       /\ ts[i].status = "closed"
       /\ ts[i + 1].opened_at_utc >= ts[i].closed_at_utc

\* the Trade rows of every instrument of the account are sequential
SequentialTrades(tables, gs) ==
    \A k \in 1..Len(gs) : Sequential(RowsOfInstrument(tables, gs[k]).trades)

WalkSequential ==
    pc = "walk" =>
        SequentialTrades(Tables(trades, trade_executions, trade_days), groups)

ReturnedSequential ==
    ReturnedOk =>
        SequentialTrades(committed, GroupByInstrument(Walked, <<>>))

\* the step creates a Trade
CreatesTrade == pc = "walk" /\ Len(trades') = Len(trades) + 1

\* C28: during the walk and after the rebuild at most the newest trade of
\* an instrument is open and each trade opens no earlier than the one
\* before it closed; a step that creates a trade leaves the trade that was
\* current closed and the new trade's lot alone in the queue, and on a flip
\* the new trade opens at the instant the old one closed.
C28_SequentialTrades ==
    /\ [](WalkSequential /\ ReturnedSequential)
    /\ [][CreatesTrade =>
            /\ Len(open_lots') = 1
            /\ (current_trade # <<>>) =>
                  LET old == TradeById(trades', current_trade[1])
                  IN  /\ old.status = "closed"
                      /\ trades'[Len(trades')].opened_at_utc
                             = old.closed_at_utc
         ]_vars

\* a flip: the first trade closed and the second opened at the same instant
C28_Witness ==
    /\ ReturnedOk
    /\ Len(committed.trades) = 2
    /\ committed.trades[1].status = "closed"
    /\ committed.trades[2].status = "open"
    /\ committed.trades[2].opened_at_utc = committed.trades[1].closed_at_utc
    /\ Len(Walked) = 2

\* -------------------------------------------------------------------- C29
\* the rows of tables that are not of the account acct
RowsOfOthers(tables, acct) ==
    LET mine == TradeIdsOf(tables, acct)
        Other(t) == t.account_id # acct
        Child(r) == r.trade_id \notin mine
    IN  Tables(SelectSeq(tables.trades, Other),
               SelectSeq(tables.trade_executions, Child),
               SelectSeq(tables.trade_days, Child))

\* the step is a step of reconstruct_for_account (its start, a step of its
\* walk, its commit or its failure)
ReconstructStep == runs' # runs \/ pc # "idle"

\* C29: a step of reconstruct_for_account(A) leaves the Trade,
\* TradeExecution and TradeDay rows of every account other than A as they
\* were, in the session and in the committed store, and leaves the Execution
\* rows of all accounts as they were.
C29_AccountFrame ==
    [][ReconstructStep =>
         /\ executions' = executions
         /\ RowsOfOthers(Tables(trades', trade_executions', trade_days'),
                         account_id')
               = RowsOfOthers(Tables(trades, trade_executions, trade_days),
                              account_id')
         /\ RowsOfOthers(committed', account_id')
               = RowsOfOthers(committed, account_id')
      ]_vars

\* the second rebuild was of another account than the first, and the rows
\* of the first are still there
C29_Witness ==
    /\ ReturnedOk
    /\ runs = 2
    /\ Len(TradesOfAccount(account_id)) > 0
    /\ Len(RowsOfOthers(committed, account_id).trades) > 0
    /\ Len(RowsOfOthers(committed, account_id).trade_days) > 0

\* -------------------------------------------------------------------- C30
\* C30: after a rebuild the shares_closed of the TradeDay rows of every
\* Trade, open or closed, add up to the trade's quantity_closed.
C30_SharesClosedConservation ==
    ReturnedOk =>
        \A i \in 1..Len(committed.trades) :
           SumField(DaysOf(committed, committed.trades[i].id), "shares_closed")
               = committed.trades[i].quantity_closed

\* a trade closed over two days, and an open trade behind it
C30_Witness ==
    /\ ReturnedOk
    /\ Len(committed.trades) = 2
    /\ committed.trades[1].status = "closed"
    /\ Len(DaysOf(committed, committed.trades[1].id)) = 2
    /\ committed.trades[2].status = "open"

====
